---- MODULE Spec2Model ----
(***************************************************************************)
(* Rigid-body simulation core: interval / AABB math, SAT narrow phase,     *)
(* sweep-and-prune broad phase, collision store, rigid-body integrator and *)
(* the per-frame system schedule.                                          *)
(*                                                                         *)
(* Numbers.  The program computes in f32.  The model computes in exact     *)
(* rationals <<n, d>> (d > 0, lowest terms); <<1, 0>> and <<-1, 0>> stand  *)
(* for f32::INFINITY and f32::NEG_INFINITY.  A unit quaternion is held as  *)
(* the primitive integer quaternion on the same ray (q and q/|q| denote    *)
(* the same rotation), so normalize() is the reduction to that form.       *)
(*                                                                         *)
(* Exact arithmetic stays small only for small inputs: the runs step with  *)
(* dt = 1 and spin with angular velocity 1 where main.rs has dt = 0.02 and *)
(* 0.5; no property below depends on the value of dt.                      *)
(*                                                                         *)
(* Style.  A value the code binds once with `let` and reads several times  *)
(* is passed as an operator argument (evaluated once) rather than bound by *)
(* LET (evaluated at every use); such helper operators carry the bound     *)
(* names as parameters.                                                    *)
(***************************************************************************)
EXTENDS Integers, Sequences, FiniteSets, TLC

VARIABLES
    i_a, i_b, i_ab,              \* math.rs test_intersection: two intervals and their intersection
    tc_self, tc_other, tc_out,   \* TransformedCollider::collide: receiver, argument, returned value
    collision_store,             \* CollisionStore.collisions
    added,                       \* history: entities passed to add_collision (now / before the last clear)
    asked,                       \* the has_collision query made on the store as it is, if any
    entities,                    \* the ECS world: entity index -> its components
    phys_world,                  \* PhysicsWorld resource
    materials,                   \* base_color of each entity's material
    order,                       \* the order in which the stage runs its three systems
    pc,                          \* how many systems of the current frame have run (SpecBody: forces added)
    frame,                       \* frames completed
    trace,                       \* what the last collide pass saw and computed
    fault                        \* "none", or how the process died

vars == <<i_a, i_b, i_ab, tc_self, tc_other, tc_out, collision_store, added, asked,
          entities, phys_world, materials, order, pc, frame, trace, fault>>

intervalVars == <<i_a, i_b, i_ab>>
satVars      == <<tc_self, tc_other, tc_out>>
storeVars    == <<collision_store, added, asked>>
worldVars    == <<entities, phys_world, materials, order, pc, frame, trace, fault>>

\* Option<T>
None == [some |-> FALSE]

Some(v) == [some |-> TRUE, v |-> v]

(***************************************************************************)
(* Exact rational arithmetic standing for f32.                             *)
(***************************************************************************)
Abs(n) == IF n < 0 THEN -n ELSE n

Sign(n) == IF n < 0 THEN -1 ELSE IF n > 0 THEN 1 ELSE 0

RECURSIVE GCD(_, _)
GCD(a, b) == IF b = 0 THEN a ELSE GCD(b, a % b)

Reduced(n, d, g) == <<n \div g, d \div g>>

Rat(n, d) ==
    IF d = 0 THEN <<Sign(n), 0>>
    ELSE IF d < 0 THEN Reduced(-n, -d, GCD(Abs(n), -d))
    ELSE Reduced(n, d, GCD(Abs(n), d))

Z(n) == <<n, 1>>

INFINITY == <<1, 0>>

NEG_INFINITY == <<-1, 0>>

\* the sum over the least common denominator, to keep the numbers small
AddOver(a, b, g) == Rat(a[1] * (b[2] \div g) + b[1] * (a[2] \div g), (a[2] \div g) * b[2])

RAdd(a, b) ==
    IF a[2] = 0 THEN a
    ELSE IF b[2] = 0 THEN b
    ELSE IF a[1] = 0 THEN b
    ELSE IF b[1] = 0 THEN a
    ELSE IF a[2] = 1 /\ b[2] = 1 THEN <<a[1] + b[1], 1>>
    ELSE AddOver(a, b, GCD(a[2], b[2]))

RNeg(a) == <<-a[1], a[2]>>

RSub(a, b) == RAdd(a, RNeg(b))

RMul(a, b) ==
    IF a[1] = 0 \/ b[1] = 0 THEN <<0, 1>>
    ELSE IF a[2] = 1 /\ b[2] = 1 THEN <<a[1] * b[1], 1>>
    ELSE Rat(a[1] * b[1], a[2] * b[2])

RDiv(a, b) == Rat(a[1] * b[2], a[2] * b[1])

\* comparisons by cross-multiplication, the common factor of the denominators removed
LtOver(a, b, g) == a[1] * (b[2] \div g) < b[1] * (a[2] \div g)

RLt(a, b) ==
    IF a[2] = b[2] THEN (IF a[2] = 0 THEN a[1] < b[1] ELSE a[1] < b[1])
    ELSE IF a[2] = 0 \/ b[2] = 0 THEN LtOver(a, b, 1)
    ELSE LtOver(a, b, GCD(a[2], b[2]))

RLe(a, b) == ~RLt(b, a)

\* f32::min / f32::max
RMin(a, b) == IF RLt(b, a) THEN b ELSE a

RMax(a, b) == IF RLt(a, b) THEN b ELSE a

(***************************************************************************)
(* Vec3, Mat3 (column-major, as glam) and Quat over the rationals.         *)
(***************************************************************************)
vec3(x, y, z) == <<x, y, z>>

ivec3(x, y, z) == <<Z(x), Z(y), Z(z)>>

ZERO == ivec3(0, 0, 0)

VAdd(u, v) == <<RAdd(u[1], v[1]), RAdd(u[2], v[2]), RAdd(u[3], v[3])>>

VSub(u, v) == <<RSub(u[1], v[1]), RSub(u[2], v[2]), RSub(u[3], v[3])>>

VNeg(u) == <<RNeg(u[1]), RNeg(u[2]), RNeg(u[3])>>

VScale(k, u) == <<RMul(k, u[1]), RMul(k, u[2]), RMul(k, u[3])>>

dot(u, v) == RAdd(RAdd(RMul(u[1], v[1]), RMul(u[2], v[2])), RMul(u[3], v[3]))

cross(u, v) ==
    <<RSub(RMul(u[2], v[3]), RMul(u[3], v[2])),
      RSub(RMul(u[3], v[1]), RMul(u[1], v[3])),
      RSub(RMul(u[1], v[2]), RMul(u[2], v[1]))>>

cwise_max(v1, v2) == <<RMax(v1[1], v2[1]), RMax(v1[2], v2[2]), RMax(v1[3], v2[3])>>

cwise_min(v1, v2) == <<RMin(v1[1], v2[1]), RMin(v1[2], v2[2]), RMin(v1[3], v2[3])>>

cwise_mul(v1, v2) == <<RMul(v1[1], v2[1]), RMul(v1[2], v2[2]), RMul(v1[3], v2[3])>>

\* a matrix is its three columns
mat3(c1, c2, c3) == <<c1, c2, c3>>

skew(w) ==
    mat3(vec3(Z(0), w[3], RNeg(w[2])),
         vec3(RNeg(w[3]), Z(0), w[1]),
         vec3(w[2], RNeg(w[1]), Z(0)))

MRow(m, r) == <<m[1][r], m[2][r], m[3][r]>>

MVec(m, v) == <<dot(MRow(m, 1), v), dot(MRow(m, 2), v), dot(MRow(m, 3), v)>>

MMul(a, b) == <<MVec(a, b[1]), MVec(a, b[2]), MVec(a, b[3])>>

MAdd(a, b) == <<VAdd(a[1], b[1]), VAdd(a[2], b[2]), VAdd(a[3], b[3])>>

MSub(a, b) == <<VSub(a[1], b[1]), VSub(a[2], b[2]), VSub(a[3], b[3])>>

MScale(k, a) == <<VScale(k, a[1]), VScale(k, a[2]), VScale(k, a[3])>>

from_diagonal(d) ==
    mat3(vec3(d[1], Z(0), Z(0)), vec3(Z(0), d[2], Z(0)), vec3(Z(0), Z(0), d[3]))

determinant(m) == dot(m[3], cross(m[1], m[2]))

\* Mat3::inverse: the rows of the inverse are the cross products of the columns
\* over the determinant
Transposed(r1, r2, r3) ==
    mat3(vec3(r1[1], r2[1], r3[1]),
         vec3(r1[2], r2[2], r3[2]),
         vec3(r1[3], r2[3], r3[3]))

InverseWith(m, inv_det) ==
    Transposed(VScale(inv_det, cross(m[2], m[3])),
               VScale(inv_det, cross(m[3], m[1])),
               VScale(inv_det, cross(m[1], m[2])))

inverse(m) == InverseWith(m, RDiv(Z(1), determinant(m)))

\* quaternions are records [x, y, z, w]
quat(x, y, z, w) == [x |-> x, y |-> y, z |-> z, w |-> w]

IDENTITY == quat(Z(0), Z(0), Z(0), Z(1))

QuatOf(v, r) == quat(v[1], v[2], v[3], r)

qmul(q1, q2) ==
    LET r1 == q1.w
        r2 == q2.w
        v1 == vec3(q1.x, q1.y, q1.z)
        v2 == vec3(q2.x, q2.y, q2.z)
        r  == RSub(RMul(r1, r2), dot(v1, v2))
        v  == VAdd(VAdd(VScale(r1, v2), VScale(r2, v1)), cross(v1, v2))
    IN  QuatOf(v, r)

(***************************************************************************)
(* math.rs: Interval and AABB.                                             *)
(***************************************************************************)
Interval(lo, hi) == [min |-> lo, max |-> hi]

\* Interval::new: assert!(max >= min)
Interval_new(lo, hi) == IF RLe(lo, hi) THEN Interval(lo, hi) ELSE "panic"

ProjectStep(dp, lohi) == <<RMin(dp, lohi[1]), RMax(dp, lohi[2])>>

RECURSIVE ProjectFrom(_, _, _, _)
ProjectFrom(vertices, k, axis, lohi) ==
    IF k > Len(vertices) THEN lohi
    ELSE ProjectFrom(vertices, k + 1, axis, ProjectStep(dot(vertices[k], axis), lohi))

IntervalOfPair(lohi) == Interval_new(lohi[1], lohi[2])

vertex_projection(vertices, axis) ==
    IntervalOfPair(ProjectFrom(vertices, 1, axis, <<INFINITY, NEG_INFINITY>>))

length(i) == RSub(i.max, i.min)

NonEmpty(i) == IF RLt(length(i), Z(0)) THEN None ELSE Some(i)

\* intersection with `<= 0.0` for `< 0.0`
intersection_open(self, other) ==
    IF RLe(RMin(self.max, other.max), RMax(self.min, other.min)) THEN None
    ELSE Some(Interval(RMax(self.min, other.min), RMin(self.max, other.max)))

intersection(self, other) ==
    NonEmpty(Interval(RMax(self.min, other.min), RMin(self.max, other.max)))

AABB(lo, hi) == [min |-> lo, max |-> hi]

FitStep(box, vertex) == AABB(cwise_min(box.min, vertex), cwise_max(box.max, vertex))

RECURSIVE FitFrom(_, _, _)
FitFrom(vertices, k, box) ==
    IF k > Len(vertices) THEN box
    ELSE FitFrom(vertices, k + 1, FitStep(box, vertices[k]))

fit_vertices(vertices) ==
    FitFrom(vertices, 1, AABB(vec3(INFINITY, INFINITY, INFINITY),
                              VNeg(vec3(INFINITY, INFINITY, INFINITY))))

(***************************************************************************)
(* GlobalTransform (translation and rotation; scale is always ONE here).   *)
(***************************************************************************)
GlobalTransform(translation, rotation) ==
    [translation |-> translation, rotation |-> rotation]

norm2(q) == RAdd(RAdd(RMul(q.x, q.x), RMul(q.y, q.y)), RAdd(RMul(q.z, q.z), RMul(q.w, q.w)))

\* Mat3::from_quat of the unit quaternion q / |q|
FromProducts(xx, xy, xz, yy, yz, zz, wx, wy, wz) ==
    mat3(vec3(RSub(Z(1), RAdd(yy, zz)), RAdd(xy, wz), RSub(xz, wy)),
         vec3(RSub(xy, wz), RSub(Z(1), RAdd(xx, zz)), RAdd(yz, wx)),
         vec3(RAdd(xz, wy), RSub(yz, wx), RSub(Z(1), RAdd(xx, yy))))

FromQuatWith(q, k) ==
    FromProducts(RMul(k, RMul(q.x, q.x)), RMul(k, RMul(q.x, q.y)), RMul(k, RMul(q.x, q.z)),
                 RMul(k, RMul(q.y, q.y)), RMul(k, RMul(q.y, q.z)), RMul(k, RMul(q.z, q.z)),
                 RMul(k, RMul(q.w, q.x)), RMul(k, RMul(q.w, q.y)), RMul(k, RMul(q.w, q.z)))

\* Mat3::from_quat of the unit quaternion q / |q|: each product x2 * y is 2xy / |q|^2
from_quat(q) == FromQuatWith(q, RDiv(Z(2), norm2(q)))

\* GlobalTransform::mul_vec3 with R = Mat3::from_quat(rotation): R * v + translation
RotateTranslate(R, translation, v) == VAdd(MVec(R, v), translation)

(***************************************************************************)
(* collision.rs: Collider and TransformedCollider.                         *)
(***************************************************************************)
BOX_VERTICES ==
    <<ivec3(-1, -1, -1), ivec3(-1, -1, 1), ivec3(-1, 1, -1), ivec3(-1, 1, 1),
      ivec3(1, -1, -1),  ivec3(1, -1, 1),  ivec3(1, 1, -1),  ivec3(1, 1, 1)>>

new_box(extents) == [ty |-> "Box", extents |-> extents]

I_b(c) ==
    LET v == c.extents
    IN  from_diagonal(VScale(Rat(1, 12),
            vec3(RAdd(RMul(v[2], v[2]), RMul(v[3], v[3])),
                 RAdd(RMul(v[1], v[1]), RMul(v[3], v[3])),
                 RAdd(RMul(v[1], v[1]), RMul(v[2], v[2])))))

with_transform(collider, transform) == [collider |-> collider, transform |-> transform]

\* transform.mul_vec3(0.5 * cwise_mul(extents, BOX_VERTICES[k])) for k = 1..count
RECURSIVE WorldVertices(_, _, _, _)
WorldVertices(R, translation, extents, count) ==
    IF count = 0 THEN <<>>
    ELSE Append(WorldVertices(R, translation, extents, count - 1),
                RotateTranslate(R, translation,
                                VScale(Rat(1, 2), cwise_mul(extents, BOX_VERTICES[count]))))

aabb(tc) ==
    fit_vertices(WorldVertices(from_quat(tc.transform.rotation), tc.transform.translation,
                               tc.collider.extents, Len(BOX_VERTICES)))

\* [right(), up(), forward()] of a transform whose rotation matrix is R:
\* R * X, R * Y and -(R * Z)
Basis(R) == <<MVec(R, ivec3(1, 0, 0)), MVec(R, ivec3(0, 1, 0)), VNeg(MVec(R, ivec3(0, 0, 1)))>>

AxesOf(self_axes, other_axes) ==
    self_axes \o other_axes \o
    <<cross(self_axes[1], self_axes[2]),
      cross(self_axes[1], self_axes[3]),
      cross(self_axes[2], self_axes[3])>>

\* the candidate axes, in the order collide pushes them: self_axes = [right, up,
\* forward] of self, other_axes of other, then the cross products collide adds
collide_axes(self, other) ==
    AxesOf(Basis(from_quat(self.transform.rotation)),
           Basis(from_quat(other.transform.rotation)))

EPS_INV == 1000000

\* axis.length() < 1e-6, decided on the squared length n/d without overflow:
\* n/d < 1/EPS_INV^2  iff  n <= ((d - 1) div EPS_INV) div EPS_INV
LengthSqBelowEps(l2) == l2[1] <= ((l2[2] - 1) \div EPS_INV) \div EPS_INV

is_degenerate(axis) == LengthSqBelowEps(dot(axis, axis))

\* self_vertices[i] and other_vertices[i], i in 0..6: both through self.transform
collide_self_vertices(self, other) ==
    WorldVertices(from_quat(self.transform.rotation), self.transform.translation,
                  self.collider.extents, 6)

collide_other_vertices(self, other) ==
    WorldVertices(from_quat(self.transform.rotation), self.transform.translation,
                  other.collider.extents, 6)

\* one pass of the loop body for a non-degenerate axis, i its intersection:
\* acc = [normal, minimal_intersection, broke]
AxisStep(axis, i, acc) ==
    IF ~i.some
    THEN [normal |-> acc.normal, minimal |-> None, broke |-> TRUE]
    ELSE IF ~acc.minimal.some \/ RLt(length(i.v), length(acc.minimal.v))
         THEN [normal |-> axis, minimal |-> i, broke |-> FALSE]
         ELSE acc

RECURSIVE AxisLoop(_, _, _, _, _)
AxisLoop(axes, k, self_vertices, other_vertices, acc) ==
    IF k > Len(axes) \/ acc.broke THEN acc
    ELSE IF is_degenerate(axes[k])
         THEN AxisLoop(axes, k + 1, self_vertices, other_vertices, acc)
         ELSE AxisLoop(axes, k + 1, self_vertices, other_vertices,
                       AxisStep(axes[k],
                                intersection(vertex_projection(self_vertices, axes[k]),
                                             vertex_projection(other_vertices, axes[k])),
                                acc))

CollisionData(normal, depth) == [normal |-> normal, depth |-> depth]

MapToData(r) ==
    IF ~r.minimal.some THEN None
    ELSE Some(CollisionData(r.normal, length(r.minimal.v)))

TransformedCollider_collide(self, other) ==
    MapToData(AxisLoop(collide_axes(self, other), 1,
                       collide_self_vertices(self, other),
                       collide_other_vertices(self, other),
                       [normal |-> ZERO, minimal |-> None, broke |-> FALSE]))

(***************************************************************************)
(* collision.rs: CollisionStore.                                           *)
(***************************************************************************)
Collision(a, b) == [entity_a |-> a, entity_b |-> b]

CollisionStore_new == <<>>

add_collision(store, a, b, data) == Append(store, Collision(a, b))

clear(store) == <<>>

\* has_collision looking at entity_a only
has_collision_a(store, entity) ==
    \E k \in 1..Len(store) : store[k].entity_a = entity

has_collision(store, entity) ==
    \E k \in 1..Len(store) : store[k].entity_a = entity \/ store[k].entity_b = entity

(***************************************************************************)
(* rigidbody.rs: RigidBody, PhysicsWorld and the integrator.               *)
(***************************************************************************)
RigidBody(mass, velocity, angular_velocity) ==
    [mass |-> mass, velocity |-> velocity, angular_velocity |-> angular_velocity,
     force |-> ZERO, torque |-> ZERO]

add_force(rb, offset, force) ==
    [rb EXCEPT !.force = VAdd(rb.force, force),
               !.torque = VAdd(rb.torque, cross(offset, force))]

PhysicsWorld(dt, g) == [dt |-> dt, g |-> g, t |-> Z(0)]

QAdd(p, q) == quat(RAdd(p.x, q.x), RAdd(p.y, q.y), RAdd(p.z, q.z), RAdd(p.w, q.w))

QScale(q, k) == quat(RMul(q.x, k), RMul(q.y, k), RMul(q.z, k), RMul(q.w, k))

LCM(a, b) == (a \div GCD(a, b)) * b

Numerator(c, l) == c[1] * (l \div c[2])

Primitive(x, y, z, w, g) == quat(Z(x \div g), Z(y \div g), Z(z \div g), Z(w \div g))

Cleared(q, l) ==
    Primitive(Numerator(q.x, l), Numerator(q.y, l), Numerator(q.z, l), Numerator(q.w, l),
              GCD(GCD(Abs(Numerator(q.x, l)), Abs(Numerator(q.y, l))),
                  GCD(Abs(Numerator(q.z, l)), Abs(Numerator(q.w, l)))))

\* Quat::normalize: the quaternion of the same rotation in canonical form
normalize(q) == Cleared(q, LCM(LCM(q.x[2], q.y[2]), LCM(q.z[2], q.w[2])))

\* the tail of the loop body without the two resets
Integrate_keep(rb, t, dt, velocity, w) ==
    << [rb EXCEPT !.velocity = velocity, !.angular_velocity = w],
       [t EXCEPT !.rotation =
                     normalize(QAdd(t.rotation,
                         QScale(QScale(qmul(quat(w[1], w[2], w[3], Z(0)), t.rotation),
                                       Rat(1, 2)), dt))),
                 !.translation = VAdd(t.translation, VScale(dt, velocity))] >>

\* the tail of the loop body, from `rb.angular_velocity = w` on
Integrate(rb, t, dt, velocity, w) ==
    << [rb EXCEPT !.velocity = velocity, !.angular_velocity = w,
                  !.force = ZERO, !.torque = ZERO],
       [t EXCEPT !.rotation =
                     normalize(QAdd(t.rotation,
                         QScale(QScale(qmul(quat(w[1], w[2], w[3], Z(0)), t.rotation),
                                       Rat(1, 2)), dt))),
                 !.translation = VAdd(t.translation, VScale(dt, velocity))] >>

\* f, J, dwb and the two assignments to w
AngularVelocity(rb, dt, Ib, R, I_inv, wb, Ibwb) ==
    VAdd(MVec(R, VSub(wb,
                  MVec(inverse(MAdd(Ib, MScale(dt, MSub(MMul(skew(wb), Ib), skew(Ibwb))))),
                       VScale(dt, cross(wb, Ibwb))))),
         VScale(dt, MVec(I_inv, rb.torque)))

Rotational(rb, dt, Ib, R, R_inv, wb) ==
    AngularVelocity(rb, dt, Ib, R, MMul(MMul(R, inverse(Ib)), R_inv), wb, MVec(Ib, wb))

Linear(rb, world) ==
    VAdd(rb.velocity, VScale(world.dt, VAdd(VScale(RDiv(Z(1), rb.mass), rb.force), world.g)))

UpdateWith(rb, t, world, Ib, R, R_inv) ==
    Integrate(rb, t, world.dt, Linear(rb, world),
              Rotational(rb, world.dt, Ib, R, R_inv, MVec(R_inv, rb.angular_velocity)))

UpdateIn(rb, t, world, Ib, R) == UpdateWith(rb, t, world, Ib, R, inverse(R))

\* the body of update's loop for one (rb, coll, t): the new <<rb, t>>
update_body(rb, coll, t, world) == UpdateIn(rb, t, world, I_b(coll), from_quat(t.rotation))

\* Query<(&mut RigidBody, &Collider, &mut GlobalTransform)>
update_matches(e) == e.rb.some /\ e.collider.some

Updated(e, r) == [e EXCEPT !.rb = Some(r[1]), !.transform = r[2]]

RECURSIVE UpdateFrom(_, _, _)
UpdateFrom(world, ents, k) ==
    IF k > Len(ents) THEN <<>>
    ELSE <<IF update_matches(ents[k])
           THEN Updated(ents[k],
                        update_body(ents[k].rb.v, ents[k].collider.v, ents[k].transform, world))
           ELSE ents[k]>> \o UpdateFrom(world, ents, k + 1)

\* rigidbody::update: the new <<entities, phys_world>>
update(world, ents) ==
    <<UpdateFrom(world, ents, 1), [world EXCEPT !.t = RAdd(world.t, world.dt)]>>

(***************************************************************************)
(* collision.rs: the collide system (broad phase, narrow phase, store).    *)
(***************************************************************************)
\* Query<(Entity, &Collider, &GlobalTransform)>: the matching entities, in order
RECURSIVE QueryFrom(_, _)
QueryFrom(ents, k) ==
    IF k > Len(ents) THEN <<>>
    ELSE (IF ents[k].collider.some
          THEN << <<k, ents[k].collider.v, ents[k].transform>> >>
          ELSE <<>>) \o QueryFrom(ents, k + 1)

collider_query(ents) == QueryFrom(ents, 1)

\* axis.sort_by(min[d]): a stable sort of the 0-based indices
RECURSIVE InsertByMin(_, _, _, _)
InsertByMin(sorted, x, aabbs, d) ==
    IF sorted = <<>> THEN <<x>>
    ELSE IF RLt(aabbs[x + 1].min[d], aabbs[Head(sorted) + 1].min[d])
         THEN <<x>> \o sorted
         ELSE <<Head(sorted)>> \o InsertByMin(Tail(sorted), x, aabbs, d)

RECURSIVE SortFrom(_, _, _, _)
SortFrom(sorted, k, aabbs, d) ==
    IF k >= Len(aabbs) THEN sorted
    ELSE SortFrom(InsertByMin(sorted, k, aabbs, d), k + 1, aabbs, d)

\* the indices left in query order
index_order(aabbs, d) == [k \in 1..Len(aabbs) |-> k - 1]

sort_by_min(aabbs, d) == SortFrom(<<>>, 0, aabbs, d)

\* the width of usize in the model
USIZE_BITS == 4

USIZE_MAX == 2 ^ USIZE_BITS - 1

\* n - 1 on usize: the value, and whether the subtraction overflowed
sweep_bound(n) ==
    IF n >= 1 THEN [value |-> n - 1, overflow |-> FALSE]
    ELSE [value |-> USIZE_MAX, overflow |-> TRUE]

usize_min(a, b) == IF a < b THEN a ELSE b

usize_max(a, b) == IF a < b THEN b ELSE a

\* while j < n && aabbs[axis[j]].min[d] <= aabbs[axis[i]].max[d]
RECURSIVE SweepWhile(_, _, _, _, _, _)
SweepWhile(aabbs, axis, d, i, j, acc) ==
    IF j < Len(aabbs) /\ RLe(aabbs[axis[j + 1] + 1].min[d], aabbs[axis[i + 1] + 1].max[d])
    THEN SweepWhile(aabbs, axis, d, i, j + 1,
             acc \cup {<<usize_min(axis[i + 1], axis[j + 1]), usize_max(axis[i + 1], axis[j + 1])>>})
    ELSE acc

\* for i in 0..hi
RECURSIVE SweepFor(_, _, _, _, _, _)
SweepFor(aabbs, axis, d, i, hi, acc) ==
    IF i >= hi THEN acc
    ELSE SweepFor(aabbs, axis, d, i + 1, hi, SweepWhile(aabbs, axis, d, i, i + 1, acc))

per_axis_collisions(aabbs, d, hi) ==
    SweepFor(aabbs, sort_by_min(aabbs, d), d, 0, hi, {})

\* the fold over the three per-axis sets, started from a clone of the first
Fold(p) == ((p[1] \cap p[1]) \cap p[2]) \cap p[3]

broad_phase(aabbs, hi) ==
    Fold(<<per_axis_collisions(aabbs, 1, hi),
           per_axis_collisions(aabbs, 2, hi),
           per_axis_collisions(aabbs, 3, hi)>>)

\* for &(i, j) in &collisions, in the order `pairs` (the HashSet's iteration order)
AddIfSome(store, e1, e2, data) ==
    IF data.some THEN add_collision(store, e1, e2, data.v) ELSE store

\* c1.with_transform(t1).collide(c2.with_transform(t2)) for the pair (i, j)
narrow(q, pair) ==
    TransformedCollider_collide(with_transform(q[pair[1] + 1][2], q[pair[1] + 1][3]),
                                with_transform(q[pair[2] + 1][2], q[pair[2] + 1][3]))

\* the narrow-phase result of every candidate pair: a set of <<pair, Option<CollisionData>>>,
\* computed once whatever the order the pairs are visited in
narrow_results(q, candidates) == {<<pair, narrow(q, pair)>> : pair \in candidates}

ResultOf(results, pair) == (CHOOSE r \in results : r[1] = pair)[2]

RECURSIVE NarrowFrom(_, _, _, _, _)
NarrowFrom(store, q, pairs, k, results) ==
    IF k > Len(pairs) THEN store
    ELSE NarrowFrom(AddIfSome(store, q[pairs[k][1] + 1][1], q[pairs[k][2] + 1][1],
                              ResultOf(results, pairs[k])),
                    q, pairs, k + 1, results)

RECURSIVE AabbsFrom(_, _)
AabbsFrom(q, k) ==
    IF k > Len(q) THEN <<>>
    ELSE <<aabb(with_transform(q[k][2], q[k][3]))>> \o AabbsFrom(q, k + 1)

\* the aabbs half of the unzip
query_aabbs(q) == AabbsFrom(q, 1)

\* collision::collide up to the narrow-phase loop
Candidates(aabbs) == broad_phase(aabbs, sweep_bound(Len(aabbs)).value)

\* collide without its first statement
collide_keep(store, q, pairs, results) == NarrowFrom(store, q, pairs, 1, results)

\* collision::collide: the store it leaves, visiting the candidates in order `pairs`
collide(store, q, pairs, results) == NarrowFrom(clear(store), q, pairs, 1, results)

\* every order in which a set can be iterated
RECURSIVE Orderings(_)
Orderings(S) ==
    IF S = {} THEN {<<>>}
    ELSE UNION {{<<x>> \o o : o \in Orderings(S \ {x})} : x \in S}

(***************************************************************************)
(* main.rs: debug_collision.                                               *)
(***************************************************************************)
RECURSIVE DebugFrom(_, _, _, _)
DebugFrom(mats, store, ents, k) ==
    IF k > Len(ents) THEN mats
    ELSE IF ~ents[k].collider.some THEN DebugFrom(mats, store, ents, k + 1)
    ELSE DebugFrom([mats EXCEPT ![ents[k].material] =
                        IF has_collision(store, k) THEN "RED" ELSE "WHITE"],
                   store, ents, k + 1)

debug_collision(mats, store, ents) == DebugFrom(mats, store, ents, 1)

(***************************************************************************)
(* Bounds of the model and the inputs it draws.                            *)
(***************************************************************************)
\* entities setup spawns
MaxObjects == 3

\* frames the stage runs (update steps in SpecBody)
MaxFrames == 2

\* add_force calls between two updates
MaxForces == 2

\* interval end points range over 0..MaxCoord
MaxCoord == 3

\* entity ids handed to the store on its own
MaxEntities == 3

\* records the store on its own may hold
MaxStore == 2

origin == ivec3(0, 0, 0)

\* the rotation about Z with cos = 3/5, sin = 4/5
ROT_Z == quat(Z(0), Z(0), Z(1), Z(2))

UNIT_BOX == new_box(ivec3(1, 1, 1))

\* main.rs setup: w = 1, h = 2, d = 1
SETUP_BOX == new_box(ivec3(1, 2, 1))

Entity(collider, transform, rb) ==
    [collider |-> collider, transform |-> transform, rb |-> rb, material |-> 1]

Static(collider, translation, rotation) ==
    Entity(Some(collider), GlobalTransform(translation, rotation), None)

Dynamic(collider, translation, velocity, angular_velocity) ==
    Entity(Some(collider), GlobalTransform(translation, IDENTITY),
           Some(RigidBody(Z(1), velocity, angular_velocity)))

\* what setup may spawn: the two entities of main.rs (the static box and the
\* spinning body), a rotated unit box above them and two unit boxes that move
\* across them from either side
Blueprints ==
    { Static(SETUP_BOX, vec3(Rat(-7, 10), Z(0), Z(0)), IDENTITY),
      Dynamic(SETUP_BOX, vec3(Rat(7, 10), Z(0), Z(0)), ZERO, ivec3(0, 0, 1)),
      Static(UNIT_BOX, vec3(Rat(1, 2), Z(2), Z(0)), ROT_Z),
      Dynamic(UNIT_BOX, vec3(Rat(-1, 2), Z(0), Z(0)), ivec3(1, 0, 0), ZERO),
      Dynamic(UNIT_BOX, ivec3(3, 0, 0), ivec3(-1, 0, 0), ZERO) }

\* the scenes: up to MaxObjects distinct blueprints, in any spawn order
Scenes == UNION {Orderings(B) : B \in {B \in SUBSET Blueprints : Cardinality(B) <= MaxObjects}}

Systems == {"update", "collide", "debug_collision"}

NoTrace == [ran |-> FALSE]

NotCalled == [called |-> FALSE]

IdleInterval == /\ i_a = None /\ i_b = None /\ i_ab = NotCalled

IdleSat == /\ tc_self = None /\ tc_other = None /\ tc_out = NotCalled

\* added: the entities of the pairs added since the last clear (now) and of the
\* pairs a clear removed (cleared); asked: the last has_collision call
NothingAdded == [now |-> {}, cleared |-> {}]

IdleStore == /\ collision_store = CollisionStore_new /\ added = NothingAdded /\ asked = None

IdleWorld ==
    /\ entities = <<>>
    /\ phys_world = PhysicsWorld(Z(1), ZERO)
    /\ materials = <<"WHITE">>
    /\ order = <<>>
    /\ pc = 0
    /\ frame = 0
    /\ trace = NoTrace
    /\ fault = "none"

(***************************************************************************)
(* The application: setup, then each frame the stage runs the three        *)
(* systems.  main adds them with add_system and no label, before or after: *)
(* the stage fixes their order when it is built, and the program does not  *)
(* say which.                                                              *)
(***************************************************************************)
Init ==
    /\ IdleInterval
    /\ IdleSat
    /\ IdleStore
    /\ entities \in Scenes
    /\ phys_world = PhysicsWorld(Z(1), ZERO)
    /\ materials = <<"WHITE">>
    /\ order \in Orderings(Systems)
    /\ pc = 0
    /\ frame = 0
    /\ trace = NoTrace
    /\ fault = "none"

Scheduled(system) ==
    /\ fault # "panic"
    /\ frame < MaxFrames
    /\ order[pc + 1] = system

Advance ==
    /\ pc' = (pc + 1) % 3
    /\ frame' = IF pc = 2 THEN frame + 1 ELSE frame

UpdateTo(r) ==
    /\ entities' = r[1]
    /\ phys_world' = r[2]

RunUpdate ==
    /\ Scheduled("update")
    /\ UpdateTo(update(phys_world, entities))
    /\ Advance
    /\ UNCHANGED <<intervalVars, satVars, storeVars, materials, order, trace, fault>>

\* what a collide pass read and computed
Trace(ents, world, store, aabbs, candidates, results) ==
    [ran |-> TRUE, frame |-> frame, t |-> world.t, entities |-> ents,
     aabbs |-> aabbs, before |-> {store[k] : k \in 1..Len(store)},
     candidates |-> candidates, results |-> results]

CollidePass(q, bound, aabbs, candidates, results) ==
    IF bound.overflow
    THEN \E build \in (IF fault = "overflow" THEN {"release"} ELSE {"debug", "release"}) :
           IF build = "debug"
           THEN \* attempt to subtract with overflow
                /\ collision_store' = clear(collision_store)
                /\ trace' = Trace(entities, phys_world, collision_store, aabbs, {}, {})
                /\ fault' = "panic"
                /\ UNCHANGED <<pc, frame>>
           ELSE \* n - 1 wraps to usize::MAX: the for loop runs over 0..usize::MAX
                \* with `j < n` false each time, and no pair is found
                /\ collision_store' = collide(collision_store, q, <<>>, results)
                /\ trace' = Trace(entities, phys_world, collision_store, aabbs,
                                  candidates, results)
                /\ fault' = "overflow"
                /\ Advance
    ELSE \E pairs \in Orderings(candidates) :
           /\ collision_store' = collide(collision_store, q, pairs, results)
           /\ trace' = Trace(entities, phys_world, collision_store, aabbs,
                             candidates, results)
           /\ fault' = fault
           /\ Advance

CollideWith(q, aabbs, candidates) ==
    CollidePass(q, sweep_bound(Len(aabbs)), aabbs, candidates, narrow_results(q, candidates))

CollideOn(q, aabbs) == CollideWith(q, aabbs, Candidates(aabbs))

CollideQuery(q) == CollideOn(q, query_aabbs(q))

RunCollide ==
    /\ Scheduled("collide")
    /\ CollideQuery(collider_query(entities))
    /\ UNCHANGED <<intervalVars, satVars, added, asked, entities, phys_world, materials, order>>

RunDebugCollision ==
    /\ Scheduled("debug_collision")
    /\ materials' = debug_collision(materials, collision_store, entities)
    /\ Advance
    /\ UNCHANGED <<intervalVars, satVars, storeVars, entities, phys_world, order, trace, fault>>

Next == RunUpdate \/ RunCollide \/ RunDebugCollision

Spec == Init /\ [][Next]_vars

(***************************************************************************)
(* Properties of the application.                                          *)
(***************************************************************************)
Overlap(a, b) ==
    \A d \in 1..3 : RLe(a.min[d], b.max[d]) /\ RLe(b.min[d], a.max[d])

OverlappingPairs(aabbs) ==
    {pair \in (0..Len(aabbs) - 1) \X (0..Len(aabbs) - 1) :
        pair[1] < pair[2] /\ Overlap(aabbs[pair[1] + 1], aabbs[pair[2] + 1])}

\* C3: when collide has run over n >= 2 colliders, the candidate set its broad
\* phase handed to the narrow phase is exactly the set of index pairs i < j whose
\* boxes overlap on all three axes.
C3_BroadPhaseExact ==
    (trace.ran /\ Len(trace.aabbs) >= 2) =>
        trace.candidates = OverlappingPairs(trace.aabbs)

\* three or more boxes, of which the sweep kept one pair and pruned another
C3_Witness ==
    /\ trace.ran
    /\ Len(trace.aabbs) >= 3
    /\ trace.candidates # {}
    /\ \E i, j \in 0..Len(trace.aabbs) - 1 : i < j /\ <<i, j>> \notin trace.candidates

\* C4: every collide pass of frame N reads transforms that update has already
\* integrated N + 1 times, i.e. update of the same frame ran first.
C4_UpdateBeforeCollide ==
    trace.ran => trace.t = RMul(Z(trace.frame + 1), phys_world.dt)

Records(store) == {store[k] : k \in 1..Len(store)}

EntityOf(ents, i) == collider_query(ents)[i + 1][1]

Reported(t) ==
    {Collision(EntityOf(t.entities, r[1][1]), EntityOf(t.entities, r[1][2])) :
        r \in {r \in t.results : r[1] \in t.candidates /\ r[2].some}}

\* C6: after a collide pass the store holds exactly one record for each candidate
\* pair whose narrow phase returned Some: nothing of the previous pass is left
\* and no record is there twice.
C6_StoreRebuilt ==
    trace.ran =>
        /\ Records(collision_store) = Reported(trace)
        /\ Cardinality(Records(collision_store)) = Len(collision_store)

\* a pass that found a record to add and dropped a record of the pass before
C6_Witness ==
    /\ trace.ran
    /\ collision_store # <<>>
    /\ trace.before \ Records(collision_store) # {}

\* C10: a collide pass completes for any number of colliders, with no panic and
\* no arithmetic overflow, and leaves the store empty when there are fewer than two.
C10_CollideCompletes ==
    trace.ran =>
        /\ fault = "none"
        /\ (Len(trace.aabbs) < 2 => collision_store = <<>>)

(***************************************************************************)
(* Interval::intersection on its own: two intervals are drawn, then         *)
(* intersected.                                                            *)
(***************************************************************************)
Intervals ==
    {Interval_new(Z(p[1]), Z(p[2])) :
        p \in {p \in (0..MaxCoord) \X (0..MaxCoord) : p[1] <= p[2]}}

InitInterval ==
    /\ i_a \in Intervals
    /\ i_b \in Intervals
    /\ i_ab = NotCalled
    /\ IdleSat
    /\ IdleStore
    /\ IdleWorld

Intersect ==
    /\ ~i_ab.called
    /\ i_ab' = [called |-> TRUE, out |-> intersection(i_a, i_b)]
    /\ UNCHANGED <<i_a, i_b, satVars, storeVars, worldVars>>

NextInterval == Intersect

SpecInterval == InitInterval /\ [][NextInterval]_vars

\* C8: intersection returns None exactly when A.max < B.min or B.max < A.min;
\* otherwise it returns the interval from the larger min to the smaller max,
\* whose max is at least its min; and the result does not depend on the order
\* of the two arguments.
C8_Intersection ==
    i_ab.called =>
        /\ ~i_ab.out.some <=> (RLt(i_a.max, i_b.min) \/ RLt(i_b.max, i_a.min))
        /\ i_ab.out.some =>
              /\ i_ab.out.v.min = RMax(i_a.min, i_b.min)
              /\ i_ab.out.v.max = RMin(i_a.max, i_b.max)
              /\ RLe(i_ab.out.v.min, i_ab.out.v.max)
        /\ i_ab.out = intersection(i_b, i_a)

\* two different intervals that touch in one point were intersected
C8_Witness ==
    /\ i_ab.called
    /\ i_a.max = i_b.min
    /\ RLt(i_a.min, i_a.max)
    /\ RLt(i_b.min, i_b.max)
    /\ i_ab.out.some

(***************************************************************************)
(* TransformedCollider::collide on its own: two placed boxes are drawn,     *)
(* then tested.                                                            *)
(***************************************************************************)
Placements ==
    {with_transform(c, GlobalTransform(p, r)) :
        c \in {UNIT_BOX, SETUP_BOX},
        p \in {origin, vec3(Rat(1, 2), Z(0), Z(0)), ivec3(3, 0, 0)},
        r \in {IDENTITY, ROT_Z}}

InitSAT ==
    /\ IdleInterval
    /\ tc_self \in Placements
    /\ tc_other \in Placements
    /\ tc_out = NotCalled
    /\ IdleStore
    /\ IdleWorld

NarrowCollide ==
    /\ ~tc_out.called
    /\ tc_out' = [called |-> TRUE,
                  axes |-> collide_axes(tc_self, tc_other),
                  data |-> TransformedCollider_collide(tc_self, tc_other)]
    /\ UNCHANGED <<intervalVars, tc_self, tc_other, storeVars, worldVars>>

NextSAT == NarrowCollide

SpecSAT == InitSAT /\ [][NextSAT]_vars

Parallel(u, v) == cross(u, v) = ZERO

\* C1: two boxes whose projections on the world X axis are disjoint do not
\* collide: collide returns None (as for unit boxes at (0,0,0) and (3,0,0)).
C1_SeparatedIsNone ==
    (/\ tc_out.called
     /\ \/ RLt(aabb(tc_self).max[1], aabb(tc_other).min[1])
        \/ RLt(aabb(tc_other).max[1], aabb(tc_self).min[1]))
    => ~tc_out.data.some

\* C2: unrotated unit boxes at (0,0,0) and (0.5,0,0) collide with depth 0.5
\* along a normal parallel to the X axis.
C2_OverlapDepth ==
    (/\ tc_out.called
     /\ tc_self = with_transform(UNIT_BOX, GlobalTransform(origin, IDENTITY))
     /\ tc_other = with_transform(UNIT_BOX,
                       GlobalTransform(vec3(Rat(1, 2), Z(0), Z(0)), IDENTITY)))
    => /\ tc_out.data.some
       /\ tc_out.data.v.depth = Rat(1, 2)
       /\ Parallel(tc_out.data.v.normal, ivec3(1, 0, 0))

SelfBasis == Basis(from_quat(tc_self.transform.rotation))

OtherBasis == Basis(from_quat(tc_other.transform.rotation))

\* C9: collide tests 15 axes: the three basis vectors of each box and the nine
\* cross products of a basis vector of one box with a basis vector of the other.
C9_FifteenAxes ==
    tc_out.called =>
        /\ Len(tc_out.axes) = 15
        /\ \A a \in 1..3 : \A b \in 1..3 :
              \E k \in 1..Len(tc_out.axes) : tc_out.axes[k] = cross(SelfBasis[a], OtherBasis[b])

(***************************************************************************)
(* CollisionStore on its own: pairs are added, the store is cleared and    *)
(* has_collision is asked, in any order.                                   *)
(***************************************************************************)
StoreEntities == 1..MaxEntities

InitStore ==
    /\ IdleInterval
    /\ IdleSat
    /\ IdleStore
    /\ IdleWorld

StoreAdd(a, b) ==
    /\ Len(collision_store) < MaxStore
    /\ collision_store' = add_collision(collision_store, a, b, CollisionData(ZERO, Z(0)))
    /\ added' = [added EXCEPT !.now = @ \cup {a, b}]
    /\ asked' = None
    /\ UNCHANGED <<intervalVars, satVars, worldVars>>

StoreClear ==
    /\ collision_store' = clear(collision_store)
    /\ added' = [now |-> {}, cleared |-> added.cleared \cup added.now]
    /\ asked' = None
    /\ UNCHANGED <<intervalVars, satVars, worldVars>>

StoreQuery(e) ==
    /\ asked' = Some([entity |-> e, answer |-> has_collision(collision_store, e)])
    /\ UNCHANGED <<intervalVars, satVars, collision_store, added, worldVars>>

NextStore ==
    \/ \E a, b \in StoreEntities : StoreAdd(a, b)
    \/ StoreClear
    \/ \E e \in StoreEntities : StoreQuery(e)

SpecStore == InitStore /\ [][NextStore]_vars

\* C5: has_collision(x) holds exactly for the entities x of the pairs added
\* since the last clear (or since new), and a query answers accordingly.
C5_StoreLifecycle ==
    /\ \A x \in StoreEntities : has_collision(collision_store, x) <=> x \in added.now
    /\ asked.some => (asked.v.answer <=> asked.v.entity \in added.now)

\* after a clear and a new pair, a query about an entity of a cleared pair said
\* no and the second entity of the new pair is known
C5_Witness ==
    /\ asked.some
    /\ ~asked.v.answer
    /\ asked.v.entity \in added.cleared
    /\ \E k \in 1..Len(collision_store) :
          /\ collision_store[k].entity_b # collision_store[k].entity_a
          /\ has_collision(collision_store, collision_store[k].entity_b)

(***************************************************************************)
(* The integrator on its own: forces are added to two bodies, one with a   *)
(* collider and one without, and update steps the world.                   *)
(***************************************************************************)
Bodies ==
    << Entity(Some(UNIT_BOX), GlobalTransform(origin, IDENTITY),
              Some(RigidBody(Z(2), ZERO, ZERO))),
       Entity(None, GlobalTransform(origin, IDENTITY),
              Some(RigidBody(Z(1), ZERO, ZERO))) >>

Gravities == {ZERO, ivec3(0, -1, 0)}

Offsets == {origin, vec3(Rat(1, 6), Z(0), Z(0))}

InitBody ==
    /\ IdleInterval
    /\ IdleSat
    /\ IdleStore
    /\ entities = Bodies
    /\ \E g \in Gravities : phys_world = PhysicsWorld(Z(1), g)
    /\ materials = <<"WHITE">>
    /\ order = <<>>
    /\ pc = 0
    /\ frame = 0
    /\ trace = NoTrace
    /\ fault = "none"

\* pc counts the forces added since the last update
BodyAddForce(k, offset) ==
    /\ pc < MaxForces
    /\ frame < MaxFrames
    /\ entities' = [entities EXCEPT ![k].rb = Some(add_force(@.v, offset, ivec3(0, -2, 0)))]
    /\ pc' = pc + 1
    /\ UNCHANGED <<intervalVars, satVars, storeVars, phys_world, materials, order,
                   frame, trace, fault>>

BodyUpdate ==
    /\ frame < MaxFrames
    /\ UpdateTo(update(phys_world, entities))
    /\ pc' = 0
    /\ frame' = frame + 1
    /\ UNCHANGED <<intervalVars, satVars, storeVars, materials, order, trace, fault>>

NextBody ==
    \/ \E k \in 1..Len(Bodies) : \E offset \in Offsets : BodyAddForce(k, offset)
    \/ BodyUpdate

SpecBody == InitBody /\ [][NextBody]_vars

Stepped == phys_world'.t # phys_world.t

\* C7: an update leaves every body that has a RigidBody and a Collider with
\* force = 0 and torque = 0, its velocity being the old velocity plus
\* (force / mass + g) * dt, so the force counts in this step only; its angular
\* velocity is the old one when no torque was accumulated (the box of Bodies is
\* a cube).  Outside update, velocity and angular velocity stay as they are.
C7_AccumulatorReset ==
    [][\A k \in 1..Len(entities) :
          LET old == entities[k].rb.v
              new == entities'[k].rb.v
          IN  IF Stepped /\ update_matches(entities[k])
              THEN /\ new.force = ZERO
                   /\ new.torque = ZERO
                   /\ new.velocity =
                         VAdd(old.velocity,
                              VScale(phys_world.dt,
                                     VAdd(VScale(RDiv(Z(1), old.mass), old.force),
                                          phys_world.g)))
                   /\ old.torque = ZERO => new.angular_velocity = old.angular_velocity
              ELSE /\ new.velocity = old.velocity
                   /\ new.angular_velocity = old.angular_velocity]_vars

\* without gravity: the body was pushed, stepped, and stepped again with nothing
\* accumulated, and kept the velocity the push gave it
C7_Witness ==
    /\ phys_world.g = ZERO
    /\ frame >= 2
    /\ pc = 0
    /\ entities[1].rb.v.force = ZERO
    /\ entities[1].rb.v.torque = ZERO
    /\ entities[1].rb.v.velocity = ivec3(0, -1, 0)
    /\ entities[1].rb.v.angular_velocity # ZERO
    /\ entities[1].transform.translation = ivec3(0, -2, 0)

====
